---- MODULE Spec2Model ----
(***************************************************************************)
(* Model of excel-processor-service/main.py: the /process request handler   *)
(* (process_excel), the background persistence task                        *)
(* (process_records_background), the in-memory progress dictionary          *)
(* (processing_progress) and the /progress/{excel_id} lookup (get_progress).*)
(*                                                                          *)
(* Requests are handled on one event loop: process_excel is an async        *)
(* function whose only await is file.read(), so between staging the file    *)
(* and returning, no other handler (and no get_progress) runs.  Background   *)
(* tasks are plain functions, run in worker threads after the response has  *)
(* been sent, and interleave freely with the loop and with each other.      *)
(*                                                                          *)
(* Rows are abstracted to their count: `records` is len(records) after the  *)
(* empty-row filter of line 339, which is also len(all_values) because the  *)
(* filter of line 377-378 keeps exactly the rows line 339 keeps.            *)
(* The "progress" field of a snapshot is kept in tenths of a percent.       *)
(*                                                                          *)
(* Spec and FairSpec run two uploads with their tasks and a poller; JobSpec *)
(* and JobFairSpec run one upload together with the notifier threads of     *)
(* notify_backend_progress; RowSpec and HeaderSpec apply the row filter and *)
(* the label deduplication of process_excel to every small sheet.           *)
(***************************************************************************)
EXTENDS Integers, FiniteSets, Sequences, TLC

\* ---- bounds -------------------------------------------------------------
NumReqs == 2
MaxBatches == 3
\* rows and columns of a sheet whose rows are normalised
MaxRows == 3
RowWidth == 2
\* columns of a sheet whose labels are deduplicated
MaxLabels == 3

\* ---- program constants --------------------------------------------------
BATCH_SIZE == 5000
POOL_MAX == 20

Reqs == 1..NumReqs
\* ids the storage sequence can hand out, plus one id that is never created
Ids == 1..(NumReqs + 1)

\* record counts around the batch boundaries: 0, 1, 5000, 5001, 10000, ...,
\* and a count in the middle of the third batch
RecordCounts ==
    {0} \cup {(k - 1) * BATCH_SIZE + 1 : k \in 1..MaxBatches}
        \cup {k * BATCH_SIZE : k \in 1..MaxBatches}
        \cup {n \in {12345} : n <= MaxBatches * BATCH_SIZE}

VARIABLES
    h_pc,                \* position of each process_excel call
    conn,                \* process_excel's local `conn`: "none" | "held"
    excel_id,            \* process_excel's local `excel_id` (0 = None)
    records,             \* len(records) of each call (-1 = not computed)
    tmp_file,            \* staged upload: "none" | "exists" | "deleted"
    response,            \* HTTP status answered (0 = not answered yet)
    pool_out,            \* connections checked out of db_pool
    next_id,             \* next value of the excel_metadata id sequence
    excel_metadata,      \* ids of committed metadata rows
    dynamic_records,     \* committed record count per excel id
    processing_progress, \* the progress dictionary
    bg_pc,               \* position of each process_records_background run
    bg_conn,             \* the task's local `conn`: "none" | "held"
    bg_i,                \* loop variable i (offset of the next batch)
    bg_pending,          \* rows inserted in the task's open transaction
    bg_failed,           \* which step of the task raised: "none" | ...
    poll_id,             \* the id a client polls with GET /progress/{id}
    polled,              \* the last answer that client received
    elapsed,             \* 5 minutes have passed since the last write to
                         \* processing_progress[poll_id]
    socketio_client,     \* the global socketio_client: "none" | "client"
    ws_connected,        \* the global ws_connected flag
    sio_state,           \* the client's connection: "unconnected" |
                         \* "connected" | "dropped" (reconnecting)
    jwt_token,           \* the jwt_token form field of each call
    threads,             \* the _notify threads, in the order they were started
    delivered,           \* the events the backend received, in arrival order
    written,             \* the snapshots stored for each call's job, in order
    df_columns,          \* df.columns of a decoded sheet (labels as read)
    headers,             \* the `headers` list of lines 322-332
    df_rows,             \* the rows of df_cleaned, each a tuple of cells
    all_values,          \* the tuples of all_values (rowData, rowIndex)
    records_count,       \* len(records) of that sheet
    sheet_pc             \* "read" | "normalized" | "rejected"

vars == <<h_pc, conn, excel_id, records, tmp_file, response, pool_out,
          next_id, excel_metadata, dynamic_records, processing_progress,
          bg_pc, bg_conn, bg_i, bg_pending, bg_failed, poll_id, polled,
          elapsed, socketio_client, ws_connected, sio_state, jwt_token,
          threads, delivered, written, df_columns, headers, df_rows,
          all_values, records_count, sheet_pc>>

hvars == <<h_pc, conn, excel_id, records, tmp_file, response>>
bgvars == <<bg_pc, bg_conn, bg_i, bg_pending, bg_failed>>
dbvars == <<pool_out, next_id, excel_metadata, dynamic_records>>
\* the program state above: handler, storage, progress dictionary, task, poll
corevars == <<hvars, dbvars, processing_progress, bgvars, poll_id, polled,
              elapsed>>
\* the notifier and what it sent
nvars == <<socketio_client, ws_connected, sio_state, jwt_token, threads,
           delivered, written>>
\* the normalisation of one sheet (lines 321-385)
sheetvars == <<df_columns, headers, df_rows, all_values, records_count,
               sheet_pc>>

\* ---- helpers ------------------------------------------------------------
Min(a, b) == IF a <= b THEN a ELSE b

\* round(min(100, processed / n * 100), 1), in tenths of a percent
\* (Python rounds halves to even)
RoundPct(processed, n) ==
    LET q == (1000 * processed) \div n
        rem == (1000 * processed) % n
        r == IF 2 * rem < n THEN q
             ELSE IF 2 * rem > n THEN q + 1
             ELSE IF q % 2 = 0 THEN q ELSE q + 1
    IN Min(1000, r)

\* a store that keeps the first snapshot of an id
SetProgressKeepsFirst(pp, id, snap) ==
    [k \in (DOMAIN pp) \cup {id} |-> IF k \in DOMAIN pp THEN pp[k] ELSE snap]

\* processing_progress[id] = snap
SetProgress(pp, id, snap) ==
    [k \in (DOMAIN pp) \cup {id} |-> IF k = id THEN snap ELSE pp[k]]

InitialSnapshot(n) ==
    [progress |-> 0, total |-> n, processed |-> 0, status |-> "processing"]

\* processed counted per batch instead of cumulatively
BatchSnapshotPerBatch(i, n, total_records) ==
    LET processed == Min(BATCH_SIZE, n - i)
    IN [progress |-> RoundPct(processed, n), total |-> total_records,
        processed |-> processed, status |-> "processing"]

\* processed not clamped to the number of records
BatchSnapshotUnclamped(i, n, total_records) ==
    LET processed == i + BATCH_SIZE
    IN [progress |-> RoundPct(processed, n), total |-> total_records,
        processed |-> processed, status |-> "processing"]

BatchSnapshot(i, n, total_records) ==
    LET processed == Min(i + BATCH_SIZE, n)
    IN [progress |-> RoundPct(processed, n), total |-> total_records,
        processed |-> processed, status |-> "processing"]

\* the final snapshot left in the processing state
CompletedSnapshotStillProcessing(n, total_records) ==
    [progress |-> 1000, total |-> total_records, processed |-> n,
     status |-> "processing"]

CompletedSnapshot(n, total_records) ==
    [progress |-> 1000, total |-> total_records, processed |-> n,
     status |-> "completed"]

\* an error path that leaves the status at processing
ErrorSnapshotStillProcessing(e) ==
    [progress |-> 0, total |-> 0, processed |-> 0, status |-> "processing",
     error |-> e]

ErrorSnapshot(e) ==
    [progress |-> 0, total |-> 0, processed |-> 0, status |-> "error",
     error |-> e]

NotFound == [progress |-> 0, status |-> "not_found"]

NoPoll == [status |-> "no_poll"]

\* a write to processing_progress[id] starts a new window for that entry
Touched(id) == IF id = poll_id THEN FALSE ELSE elapsed

\* an unknown id answered with an HTTP error
get_progress_404(id) ==
    IF id \in DOMAIN processing_progress
    THEN processing_progress[id]
    ELSE [status |-> "http_404"]

\* GET /progress/{excel_id}
get_progress(id) ==
    IF id \in DOMAIN processing_progress
    THEN processing_progress[id]
    ELSE NotFound

\* positions of process_excel between the await of file.read() and the return
InHandler == {"staged", "parsed", "connected", "cursor", "inserted",
              "committed", "registered", "scheduled"}

LoopFreeFor(r) == \A q \in Reqs \ {r} : h_pc[q] \notin InHandler
LoopFree == \A q \in Reqs : h_pc[q] \notin InHandler

InitCore ==
    /\ h_pc = [r \in Reqs |-> "idle"]
    /\ conn = [r \in Reqs |-> "none"]
    /\ excel_id = [r \in Reqs |-> 0]
    /\ records = [r \in Reqs |-> -1]
    /\ tmp_file = [r \in Reqs |-> "none"]
    /\ response = [r \in Reqs |-> 0]
    /\ pool_out = 0
    /\ next_id = 1
    /\ excel_metadata = {}
    /\ dynamic_records = [j \in Ids |-> 0]
    /\ processing_progress = <<>>
    /\ bg_pc = [r \in Reqs |-> "none"]
    /\ bg_conn = [r \in Reqs |-> "none"]
    /\ bg_i = [r \in Reqs |-> 0]
    /\ bg_pending = [r \in Reqs |-> 0]
    /\ bg_failed = [r \in Reqs |-> "none"]
    /\ poll_id \in Ids
    /\ polled = NoPoll
    /\ elapsed = FALSE

\* lines 49-50: no client, not connected; no _notify thread started yet
InitNotifier ==
    /\ socketio_client = "none"
    /\ ws_connected = FALSE
    /\ sio_state = "unconnected"
    /\ threads = <<>>
    /\ delivered = <<>>
    /\ written = [r \in Reqs |-> <<>>]

\* no sheet is being normalised
InitSheet ==
    /\ df_columns = <<>>
    /\ headers = <<>>
    /\ df_rows = <<>>
    /\ all_values = <<>>
    /\ records_count = 0
    /\ sheet_pc = "read"

Init ==
    /\ InitCore
    /\ InitNotifier
    /\ jwt_token = [r \in Reqs |-> "none"]
    /\ InitSheet

\* ---- storage and pool ---------------------------------------------------
\* the emptiness check left out
NoRecordsIgnored(n) == FALSE

\* line 341: `if not records`
NoRecords(n) == n = 0

\* db_pool.getconn() can hand out a connection (SimpleConnectionPool(1, 20))
PoolHasRoom == pool_out < POOL_MAX

\* a handler that commits what the failed run had inserted
RollbackKeepsPending(committed, pending) == committed + pending

\* conn.rollback(): what was committed stays, the open transaction is dropped
Rollback(committed, pending) == committed

\* a commit that makes nothing durable
CommitRowsLost(committed, pending) == committed

\* conn.commit(): the open transaction becomes durable
CommitRows(committed, pending) == committed + pending

\* ---- POST /process (process_excel) --------------------------------------
\* lines 292-301: extension check, then the upload is staged to a temp file;
\* calls are numbered in the order in which they arrive
Receive(r) ==
    /\ h_pc[r] = "idle"
    /\ \A q \in Reqs : q < r => h_pc[q] # "idle"
    /\ LoopFreeFor(r)
    /\ \E ext_ok \in BOOLEAN :
         IF ext_ok
         THEN /\ tmp_file' = [tmp_file EXCEPT ![r] = "exists"]
              /\ h_pc' = [h_pc EXCEPT ![r] = "staged"]
              /\ UNCHANGED response
         ELSE /\ response' = [response EXCEPT ![r] = 400]
              /\ h_pc' = [h_pc EXCEPT ![r] = "done"]
              /\ UNCHANGED tmp_file
    /\ UNCHANGED <<conn, excel_id, records, dbvars, processing_progress,
                   bgvars, polled, poll_id, elapsed>>

\* lines 303-344: read_excel, empty-row filter, `if not records` -> 400;
\* the `finally` of line 438 leaves the staged file in place
Decode(r) ==
    /\ h_pc[r] = "staged"
    /\ \E outcome \in {"ok", "empty_data", "error"} :
         \E n \in RecordCounts :
           IF outcome = "ok"
           THEN /\ records' = [records EXCEPT ![r] = n]
                /\ IF NoRecords(n)
                   THEN /\ response' = [response EXCEPT ![r] = 400]
                        /\ h_pc' = [h_pc EXCEPT ![r] = "done"]
                   ELSE /\ h_pc' = [h_pc EXCEPT ![r] = "parsed"]
                        /\ UNCHANGED response
           ELSE /\ response' = [response EXCEPT ![r] =
                                  IF outcome = "error" THEN 500 ELSE 400]
                /\ h_pc' = [h_pc EXCEPT ![r] = "done"]
                /\ UNCHANGED records
    /\ UNCHANGED <<conn, excel_id, tmp_file, dbvars, processing_progress,
                   bgvars, polled, poll_id, elapsed>>

\* line 347: conn = get_db_connection(); a failure is caught at line 435
\* while conn is still None
Connect(r) ==
    /\ h_pc[r] = "parsed"
    /\ \/ /\ PoolHasRoom
          /\ pool_out' = pool_out + 1
          /\ conn' = [conn EXCEPT ![r] = "held"]
          /\ h_pc' = [h_pc EXCEPT ![r] = "connected"]
          /\ UNCHANGED response
       \/ /\ response' = [response EXCEPT ![r] = 500]
          /\ h_pc' = [h_pc EXCEPT ![r] = "done"]
          /\ UNCHANGED <<pool_out, conn>>
    /\ UNCHANGED <<excel_id, records, tmp_file, next_id, excel_metadata,
                   dynamic_records, processing_progress, bgvars, polled,
                   poll_id, elapsed>>

\* line 348: cur = conn.cursor() sits outside the inner try: a failure goes
\* to line 435, becomes an HTTPException, and line 442 re-raises it without
\* reaching return_db_connection of line 447
Cursor(r) ==
    /\ h_pc[r] = "connected"
    /\ \/ /\ h_pc' = [h_pc EXCEPT ![r] = "cursor"]
          /\ UNCHANGED response
       \/ /\ response' = [response EXCEPT ![r] = 500]
          /\ h_pc' = [h_pc EXCEPT ![r] = "done"]
    /\ UNCHANGED <<conn, excel_id, records, tmp_file, dbvars,
                   processing_progress, bgvars, polled, poll_id, elapsed>>

\* lines 414-429: except Exception as db_error (rollback, error snapshot
\* when excel_id is set, 500) followed by the finally block
\* (cur.close(), return_db_connection(conn), conn = None)
HandlerDbError(r, e) ==
    /\ IF excel_id[r] # 0
       THEN /\ processing_progress' =
                 SetProgress(processing_progress, excel_id[r], ErrorSnapshot(e))
            /\ elapsed' = Touched(excel_id[r])
       ELSE UNCHANGED <<processing_progress, elapsed>>
    /\ pool_out' = pool_out - 1
    /\ conn' = [conn EXCEPT ![r] = "none"]
    /\ response' = [response EXCEPT ![r] = 500]
    /\ h_pc' = [h_pc EXCEPT ![r] = "done"]

\* lines 352-358: INSERT INTO excel_metadata ... RETURNING id
InsertMetadata(r) ==
    /\ h_pc[r] = "cursor"
    /\ \/ /\ excel_id' = [excel_id EXCEPT ![r] = next_id]
          /\ next_id' = next_id + 1
          /\ h_pc' = [h_pc EXCEPT ![r] = "inserted"]
          /\ UNCHANGED <<conn, response, pool_out, processing_progress,
                         elapsed>>
       \/ /\ HandlerDbError(r, "insert")
          /\ UNCHANGED <<excel_id, next_id>>
    /\ UNCHANGED <<records, tmp_file, excel_metadata, dynamic_records,
                   bgvars, polled, poll_id>>

\* line 362: conn.commit() of the metadata row
CommitMetadata(r) ==
    /\ h_pc[r] = "inserted"
    /\ \/ /\ excel_metadata' = excel_metadata \cup {excel_id[r]}
          /\ h_pc' = [h_pc EXCEPT ![r] = "committed"]
          /\ UNCHANGED <<conn, response, pool_out, processing_progress,
                         elapsed>>
       \/ /\ HandlerDbError(r, "commit")
          /\ UNCHANGED excel_metadata
    /\ UNCHANGED <<excel_id, records, tmp_file, next_id, dynamic_records,
                   bgvars, polled, poll_id>>

\* lines 365-370: the initial snapshot
Register(r) ==
    /\ h_pc[r] = "committed"
    /\ processing_progress' =
         SetProgress(processing_progress, excel_id[r],
                     InitialSnapshot(records[r]))
    /\ elapsed' = Touched(excel_id[r])
    /\ h_pc' = [h_pc EXCEPT ![r] = "registered"]
    /\ UNCHANGED <<conn, excel_id, records, tmp_file, response, dbvars,
                   bgvars, polled, poll_id>>

\* lines 373-401: all_values is built and the task is added to
\* background_tasks; an exception here is handled at line 414
Schedule(r) ==
    /\ h_pc[r] = "registered"
    /\ \/ /\ bg_pc' = [bg_pc EXCEPT ![r] = "scheduled"]
          /\ h_pc' = [h_pc EXCEPT ![r] = "scheduled"]
          /\ UNCHANGED <<conn, response, pool_out, processing_progress,
                         elapsed>>
       \/ /\ HandlerDbError(r, "prepare")
          /\ UNCHANGED bg_pc
    /\ UNCHANGED <<excel_id, records, tmp_file, next_id, excel_metadata,
                   dynamic_records, bg_conn, bg_i, bg_pending, bg_failed,
                   polled, poll_id>>

\* lines 404-412 and 426-429: the finally block returns the connection and
\* the 200 response is sent
Return(r) ==
    /\ h_pc[r] = "scheduled"
    /\ pool_out' = pool_out - 1
    /\ conn' = [conn EXCEPT ![r] = "none"]
    /\ response' = [response EXCEPT ![r] = 200]
    /\ h_pc' = [h_pc EXCEPT ![r] = "done"]
    /\ UNCHANGED <<excel_id, records, tmp_file, next_id, excel_metadata,
                   dynamic_records, processing_progress, bgvars, polled,
                   poll_id, elapsed>>

\* ---- process_records_background -----------------------------------------
\* a task started as soon as it is added, before the response
BgMayStartAtOnce(r) == TRUE

\* BackgroundTasks run the task once the response of the request is sent
BgMayStart(r) == response[r] = 200

\* a final notification that raises into the task
notify_raises_on_completed(snapshot) == snapshot.status = "completed"

\* line 147: threading.Thread(target=_notify, daemon=True).start() returns
\* at once and _notify catches every exception (line 141), so
\* notify_backend_progress does not raise into its caller
notify_raises(snapshot) == FALSE

\* lines 240-260: except Exception (rollback when conn is set, error
\* snapshot) followed by the finally block.  `cur` is first assigned at line
\* 186: when get_db_connection() or conn.cursor() raised, `if cur` at line
\* 252 raises UnboundLocalError and the rest of the finally block
\* (return_db_connection, os.unlink) is skipped.
BgExcept(r, e, cur_bound) ==
    /\ bg_failed' = [bg_failed EXCEPT ![r] = e]
    /\ bg_pending' = [bg_pending EXCEPT ![r] = 0]
    /\ dynamic_records' =
         [dynamic_records EXCEPT ![excel_id[r]] =
            Rollback(dynamic_records[excel_id[r]], bg_pending[r])]
    /\ processing_progress' =
         SetProgress(processing_progress, excel_id[r], ErrorSnapshot(e))
    /\ elapsed' = Touched(excel_id[r])
    /\ IF cur_bound
       THEN /\ pool_out' = pool_out - 1
            /\ bg_conn' = [bg_conn EXCEPT ![r] = "none"]
            /\ tmp_file' = [tmp_file EXCEPT ![r] = "deleted"]
            /\ bg_pc' = [bg_pc EXCEPT ![r] = "done"]
       ELSE /\ bg_pc' = [bg_pc EXCEPT ![r] = "crashed"]
            /\ UNCHANGED <<pool_out, bg_conn, tmp_file>>

\* line 185: conn = get_db_connection()
BgConnect(r) ==
    /\ bg_pc[r] = "scheduled"
    /\ BgMayStart(r)
    /\ \/ /\ PoolHasRoom
          /\ pool_out' = pool_out + 1
          /\ bg_conn' = [bg_conn EXCEPT ![r] = "held"]
          /\ bg_pc' = [bg_pc EXCEPT ![r] = "connected"]
          /\ UNCHANGED <<tmp_file, dynamic_records, processing_progress,
                         bg_pending, bg_failed, elapsed>>
       \/ BgExcept(r, "connect", FALSE)
    /\ UNCHANGED <<h_pc, conn, excel_id, records, response, next_id,
                   excel_metadata, bg_i, polled, poll_id>>

\* line 186: cur = conn.cursor()
BgCursor(r) ==
    /\ bg_pc[r] = "connected"
    /\ \/ /\ bg_pc' = [bg_pc EXCEPT ![r] = "loop"]
          /\ UNCHANGED <<tmp_file, pool_out, dynamic_records,
                         processing_progress, bg_conn, bg_pending, bg_failed,
                         elapsed>>
       \/ BgExcept(r, "cursor", FALSE)
    /\ UNCHANGED <<h_pc, conn, excel_id, records, response, next_id,
                   excel_metadata, bg_i, polled, poll_id>>

\* lines 191-221: one iteration of the batch loop: execute_values of
\* all_values[i:i + BATCH_SIZE], the processing snapshot, the notification
BgBatch(r) ==
    /\ bg_pc[r] = "loop"
    /\ bg_i[r] < records[r]
    /\ \/ /\ ~notify_raises(BatchSnapshot(bg_i[r], records[r], records[r]))
          /\ bg_pending' = [bg_pending EXCEPT ![r] =
                              @ + Min(BATCH_SIZE, records[r] - bg_i[r])]
          /\ processing_progress' =
               SetProgress(processing_progress, excel_id[r],
                           BatchSnapshot(bg_i[r], records[r], records[r]))
          /\ elapsed' = Touched(excel_id[r])
          /\ bg_i' = [bg_i EXCEPT ![r] = @ + BATCH_SIZE]
          /\ UNCHANGED <<tmp_file, pool_out, dynamic_records, bg_pc, bg_conn,
                         bg_failed>>
       \/ /\ BgExcept(r, "batch", TRUE)
          /\ UNCHANGED bg_i
    /\ UNCHANGED <<h_pc, conn, excel_id, records, response, next_id,
                   excel_metadata, polled, poll_id>>

\* line 224: conn.commit() after the last batch
BgCommit(r) ==
    /\ bg_pc[r] = "loop"
    /\ bg_i[r] >= records[r]
    /\ \/ /\ dynamic_records' =
               [dynamic_records EXCEPT ![excel_id[r]] =
                  CommitRows(@, bg_pending[r])]
          /\ bg_pending' = [bg_pending EXCEPT ![r] = 0]
          /\ bg_pc' = [bg_pc EXCEPT ![r] = "committed"]
          /\ UNCHANGED <<tmp_file, pool_out, processing_progress, bg_conn,
                         bg_failed, elapsed>>
       \/ BgExcept(r, "commit", TRUE)
    /\ UNCHANGED <<h_pc, conn, excel_id, records, response, next_id,
                   excel_metadata, bg_i, polled, poll_id>>

\* lines 227-233: the completed snapshot
BgComplete(r) ==
    /\ bg_pc[r] = "committed"
    /\ processing_progress' =
         SetProgress(processing_progress, excel_id[r],
                     CompletedSnapshot(records[r], records[r]))
    /\ elapsed' = Touched(excel_id[r])
    /\ bg_pc' = [bg_pc EXCEPT ![r] = "completed"]
    /\ UNCHANGED <<hvars, dbvars, bg_conn, bg_i, bg_pending, bg_failed,
                   polled, poll_id>>

\* lines 236-238 and 251-260: the final notification, then the finally
\* block: cur.close(), return_db_connection(conn), os.unlink(tmp_file_path)
BgFinish(r) ==
    /\ bg_pc[r] = "completed"
    /\ IF notify_raises(processing_progress[excel_id[r]])
       THEN BgExcept(r, "notify", TRUE)
       ELSE /\ pool_out' = pool_out - 1
            /\ bg_conn' = [bg_conn EXCEPT ![r] = "none"]
            /\ tmp_file' = [tmp_file EXCEPT ![r] = "deleted"]
            /\ bg_pc' = [bg_pc EXCEPT ![r] = "done"]
            /\ UNCHANGED <<dynamic_records, processing_progress, bg_pending,
                           bg_failed, elapsed>>
    /\ UNCHANGED <<h_pc, conn, excel_id, records, response, next_id,
                   excel_metadata, bg_i, polled, poll_id>>

\* ---- GET /progress/{excel_id} -------------------------------------------
\* lines 174-179, answered on the event loop
Poll ==
    /\ LoopFree
    /\ polled' = get_progress(poll_id)
    /\ UNCHANGED <<hvars, dbvars, processing_progress, bgvars, poll_id,
                   elapsed>>

\* ---- passage of time ----------------------------------------------------
\* Five minutes go by without a write to processing_progress[poll_id].  The
\* dictionary of lines 41-42 is only ever assigned to (lines 213, 233, 243,
\* 365, 417): no timer and no deletion exist, so time leaves it as it is.
RetentionWindowPasses ==
    /\ poll_id \in DOMAIN processing_progress
    /\ ~elapsed
    /\ elapsed' = TRUE
    /\ UNCHANGED <<hvars, dbvars, processing_progress, bgvars, poll_id,
                   polled>>

\* ---- specification ------------------------------------------------------
\* the handler's run on the event loop once the upload is staged
HandlerRun(r) ==
    \/ Decode(r)
    \/ Connect(r)
    \/ Cursor(r)
    \/ InsertMetadata(r)
    \/ CommitMetadata(r)
    \/ Register(r)
    \/ Schedule(r)
    \/ Return(r)

Handler(r) == Receive(r) \/ HandlerRun(r)

Background(r) ==
    \/ BgConnect(r)
    \/ BgCursor(r)
    \/ BgBatch(r)
    \/ BgCommit(r)
    \/ BgComplete(r)
    \/ BgFinish(r)

\* The calls, their tasks and the polling client.  The _notify threads that
\* lines 216 and 236 start are left out here: they write none of the
\* variables of corevars (checked with them included, under JobSpec).
Quiet == UNCHANGED <<nvars, sheetvars>>

Next ==
    \/ \E r \in Reqs : Handler(r) /\ Quiet
    \/ \E r \in Reqs : Background(r) /\ Quiet
    \/ Poll /\ Quiet
    \/ RetentionWindowPasses /\ Quiet

Spec == Init /\ [][Next]_vars

\* the event loop runs a handler to its return, the worker pool runs every
\* scheduled task, and the client keeps polling
FairSpec ==
    /\ Spec
    /\ \A r \in Reqs : WF_vars(HandlerRun(r) /\ Quiet)
    /\ \A r \in Reqs : WF_vars(Background(r) /\ Quiet)
    /\ WF_vars(Poll /\ Quiet)


\* ---- notify_backend_progress and the WebSocket client --------------------
\* lines 52-92: init_websocket_client(), run once when the service starts
InitWebsocketClient ==
    /\ socketio_client = "none"
    /\ sio_state = "unconnected"
    /\ threads = <<>>
    /\ \/ /\ socketio_client' = "client"
          /\ sio_state' = "connected"
          /\ ws_connected' = TRUE
       \/ /\ socketio_client' = "client"
          /\ sio_state' = "unconnected"
          /\ ws_connected' = FALSE
    /\ UNCHANGED <<corevars, jwt_token, threads, delivered, written,
                   sheetvars>>

\* lines 69-73: the connection drops and the disconnect handler runs
WsDisconnect ==
    /\ sio_state = "connected"
    /\ sio_state' = "dropped"
    /\ ws_connected' = FALSE
    /\ UNCHANGED <<corevars, socketio_client, jwt_token, threads, delivered,
                   written, sheetvars>>

\* lines 56-67: the client reconnects (reconnection=True) and the connect
\* handler runs
WsReconnect ==
    /\ sio_state = "dropped"
    /\ sio_state' = "connected"
    /\ ws_connected' = TRUE
    /\ UNCHANGED <<corevars, socketio_client, jwt_token, threads, delivered,
                   written, sheetvars>>

\* line 102: `socketio_client and ws_connected and socketio_client.connected`
ChannelEstablished ==
    /\ socketio_client = "client"
    /\ ws_connected
    /\ sio_state = "connected"

\* line 124: `if jwt_token`
HasToken(tok) == tok # "none"

\* the payload of lines 105-113 and 127-134
Event(id, snapshot) ==
    [excelId |-> id, processed |-> snapshot.processed,
     total |-> snapshot.total, status |-> snapshot.status]

\* line 147: a new thread that will run _notify for this snapshot
NewThread(id, snapshot, tok) ==
    [excel_id |-> id, snapshot |-> snapshot, jwt_token |-> tok,
     pc |-> "start", emits |-> 0, emit_ok |-> 0, posts |-> 0, post_ok |-> 0]

\* notify_backend_progress(excel_id, user_id, progress_data, filename,
\* jwt_token), lines 94-147: only starts the thread
notify_backend_progress(r, snapshot) ==
    threads' = Append(threads, NewThread(excel_id[r], snapshot, jwt_token[r]))

\* the `return` of line 117 missing: a delivered event also takes the fallback
after_emit_falls_through == "fallback"

\* line 117: `return` after a successful emit
after_emit == "done"

\* lines 100-120 of a thread: the WebSocket attempt.  A successful emit
\* returns (line 117); a failed one clears ws_connected (line 120) and goes
\* on to the fallback; without an established channel the fallback is next.
NotifyEmit(k) ==
    /\ k \in DOMAIN threads
    /\ threads[k].pc = "start"
    /\ IF ChannelEstablished
       THEN \/ /\ threads' = [threads EXCEPT ![k].pc = after_emit,
                                             ![k].emits = 1,
                                             ![k].emit_ok = 1]
               /\ delivered' = Append(delivered,
                                      Event(threads[k].excel_id,
                                            threads[k].snapshot))
               /\ UNCHANGED ws_connected
            \/ /\ threads' = [threads EXCEPT ![k].pc = "fallback",
                                             ![k].emits = 1]
               /\ ws_connected' = FALSE
               /\ UNCHANGED delivered
       ELSE /\ threads' = [threads EXCEPT ![k].pc = "fallback"]
            /\ UNCHANGED <<ws_connected, delivered>>
    /\ UNCHANGED <<corevars, socketio_client, sio_state, jwt_token, written,
                   sheetvars>>

\* a fallback whose failed post is recorded as the job's error
NotifyFallbackMarksError(k) ==
    /\ k \in DOMAIN threads
    /\ threads[k].pc = "fallback"
    /\ threads' = [threads EXCEPT ![k].pc = "done", ![k].posts = 1]
    /\ processing_progress' =
         SetProgress(processing_progress, threads[k].excel_id,
                     ErrorSnapshot("notify"))
    /\ UNCHANGED <<hvars, dbvars, bgvars, poll_id, polled, elapsed,
                   socketio_client, ws_connected, sio_state, jwt_token,
                   delivered, written, sheetvars>>

\* lines 122-144 of a thread: with a token one httpx.post (timeout 2 s),
\* which arrives or fails; without a token nothing is sent.  Every
\* exception, also the NameError on `response` at line 140, ends at line 141.
NotifyFallback(k) ==
    /\ k \in DOMAIN threads
    /\ threads[k].pc = "fallback"
    /\ IF HasToken(threads[k].jwt_token)
       THEN \/ /\ threads' = [threads EXCEPT ![k].pc = "done",
                                             ![k].posts = 1,
                                             ![k].post_ok = 1]
               /\ delivered' = Append(delivered,
                                      Event(threads[k].excel_id,
                                            threads[k].snapshot))
            \/ /\ threads' = [threads EXCEPT ![k].pc = "done",
                                             ![k].posts = 1]
               /\ UNCHANGED delivered
       ELSE /\ threads' = [threads EXCEPT ![k].pc = "done"]
            /\ UNCHANGED delivered
    /\ UNCHANGED <<corevars, socketio_client, ws_connected, sio_state,
                   jwt_token, written, sheetvars>>

\* ---- one upload with its notifications ----------------------------------
\* the snapshot sequence of call r's job grows by what this step stored
LogWritten(r) ==
    LET id == excel_id'[r]
        stored == /\ id \in DOMAIN processing_progress'
                  /\ \/ id \notin DOMAIN processing_progress
                     \/ processing_progress'[id] # processing_progress[id]
    IN written' = IF stored
                  THEN [written EXCEPT ![r] =
                          Append(@, processing_progress'[id])]
                  ELSE written

JobHandler(r) ==
    /\ Handler(r)
    /\ LogWritten(r)
    /\ UNCHANGED <<socketio_client, ws_connected, sio_state, jwt_token,
                   threads, delivered, sheetvars>>

\* the task with the calls of lines 216 and 236 to notify_backend_progress
JobBackground(r) ==
    /\ \/ /\ BgBatch(r)
          /\ IF bg_failed'[r] = "none"
             THEN notify_backend_progress(r, processing_progress'[excel_id[r]])
             ELSE UNCHANGED threads
       \/ /\ BgFinish(r)
          /\ notify_backend_progress(r, processing_progress[excel_id[r]])
       \/ /\ BgConnect(r) \/ BgCursor(r) \/ BgCommit(r) \/ BgComplete(r)
          /\ UNCHANGED threads
    /\ LogWritten(r)
    /\ UNCHANGED <<socketio_client, ws_connected, sio_state, jwt_token,
                   delivered, sheetvars>>

Notifier ==
    \/ InitWebsocketClient
    \/ WsDisconnect
    \/ WsReconnect
    \/ \E k \in DOMAIN threads : NotifyEmit(k)
    \/ \E k \in DOMAIN threads : NotifyFallback(k)

\* the first upload, with or without a token
JobInit ==
    /\ InitCore
    /\ poll_id = 1
    /\ InitNotifier
    /\ jwt_token \in {t \in [Reqs -> {"none", "tok"}] :
                        \A r \in Reqs : r # 1 => t[r] = "none"}
    /\ InitSheet

JobNext ==
    \/ JobHandler(1)
    \/ JobBackground(1)
    \/ Notifier

JobSpec == JobInit /\ [][JobNext]_vars

\* the task is run by the worker pool; nothing is assumed of the notifier
\* threads, which may stall for ever
JobFairSpec ==
    /\ JobSpec
    /\ WF_vars(JobHandler(1))
    /\ WF_vars(JobBackground(1))


\* ---- normalisation of the rows (lines 334-385) --------------------------
\* a cell of df_cleaned: None, a whitespace-only string or a string with text
None == "<None>"
Cells == {None, "  ", "x"}
Rows == [1..RowWidth -> Cells]
RowSeqs == UNION {[1..n -> Rows] : n \in 0..MaxRows}

\* a column name of the data frame, as text
ColumnNames == {"A", " A", "A ", "A_1", "B", " B"}

\* str.strip() on the cells and column names of the model
Strip(v) ==
    CASE v = "  " -> ""
      [] v \in {" A", "A "} -> "A"
      [] v = " B" -> "B"
      [] OTHER -> v

\* `v is not None and (not isinstance(v, str) or v.strip())`
HasValue(v) == v # None /\ Strip(v) # ""

KeepRow(row) == \E c \in DOMAIN row : HasValue(row[c])

\* no row is filtered out
FilterRecordsKeepAll(rows) == rows

\* line 339: the rows with at least one value
FilterRecords(rows) == SelectSeq(rows, KeepRow)

\* line 377: the fields of a record that have a value
cleaned_record(record) ==
    [c \in {c \in DOMAIN record : HasValue(record[c])} |-> record[c]]

\* lines 374-385: row_index starts at 1 and advances only when a tuple is
\* appended
RECURSIVE BuildAllValues(_, _, _)
BuildAllValues(recs, row_index, acc) ==
    IF recs = <<>> THEN acc
    ELSE LET cleaned == cleaned_record(Head(recs))
         IN IF DOMAIN cleaned # {}
            THEN BuildAllValues(Tail(recs), row_index + 1,
                                Append(acc, [rowData |-> cleaned,
                                             rowIndex |-> row_index]))
            ELSE BuildAllValues(Tail(recs), row_index, acc)

\* lines 336-385 on one sheet: filter, `if not records` -> 400, all_values
NormalizeRows ==
    /\ sheet_pc = "read"
    /\ LET recs == FilterRecords(df_rows)
       IN /\ records_count' = Len(recs)
          /\ IF NoRecords(Len(recs))
             THEN /\ sheet_pc' = "rejected"
                  /\ UNCHANGED all_values
             ELSE /\ sheet_pc' = "normalized"
                  /\ all_values' = BuildAllValues(recs, 1, <<>>)
    /\ UNCHANGED <<corevars, nvars, df_columns, headers, df_rows>>

\* any sheet of up to MaxRows rows
RowInit ==
    /\ InitCore
    /\ poll_id = 1
    /\ InitNotifier
    /\ jwt_token = [r \in Reqs |-> "none"]
    /\ df_columns = <<>>
    /\ headers = <<>>
    /\ df_rows \in RowSeqs
    /\ all_values = <<>>
    /\ records_count = 0
    /\ sheet_pc = "read"

RowNext == NormalizeRows

RowSpec == RowInit /\ [][RowNext]_vars


\* ---- column labels (lines 321-332) --------------------------------------
\* pandas hands over pairwise-distinct column names (it renames repeated
\* header cells itself); they may still differ only in surrounding blanks
ColumnSeqs ==
    UNION {{cs \in [1..n -> ColumnNames] :
              \A i, j \in 1..n : i # j => cs[i] # cs[j]} : n \in 0..MaxLabels}

\* lines 322-323: a column name is a string here, so pd.notna(col) holds
StripHeaders(columns) == [i \in DOMAIN columns |-> Strip(columns[i])]

\* lines 326-332: `seen` counts the occurrences of a label as it stood
\* before renaming; a renamed label is not entered into `seen`
RECURSIVE DedupHeaders(_, _, _)
DedupHeaders(hs, i, seen) ==
    IF i > Len(hs) THEN hs
    ELSE LET header == hs[i]
         IN IF header \in DOMAIN seen
            THEN DedupHeaders(
                   [hs EXCEPT ![i] = header \o "_" \o ToString(seen[header])],
                   i + 1, [seen EXCEPT ![header] = @ + 1])
            ELSE DedupHeaders(hs, i + 1, seen @@ (header :> 1))

\* lines 321-332 on one sheet
ReadHeaders ==
    /\ sheet_pc = "read"
    /\ headers' = DedupHeaders(StripHeaders(df_columns), 1, <<>>)
    /\ sheet_pc' = "headers"
    /\ UNCHANGED <<corevars, nvars, df_columns, df_rows, all_values,
                   records_count>>

\* any sheet of up to MaxLabels columns
HeaderInit ==
    /\ InitCore
    /\ poll_id = 1
    /\ InitNotifier
    /\ jwt_token = [r \in Reqs |-> "none"]
    /\ df_columns \in ColumnSeqs
    /\ headers = <<>>
    /\ df_rows = <<>>
    /\ all_values = <<>>
    /\ records_count = 0
    /\ sheet_pc = "read"

HeaderNext == ReadHeaders

HeaderSpec == HeaderInit /\ [][HeaderNext]_vars

\* ---- properties ---------------------------------------------------------
Finished(r) ==
    /\ h_pc[r] = "done"
    /\ bg_pc[r] \in {"none", "done", "crashed"}

StatusOf(id) ==
    IF id \in DOMAIN processing_progress
    THEN processing_progress[id].status
    ELSE "absent"

C2_Liveness ==
    \A r \in Reqs :
      (bg_pc[r] = "scheduled" /\ poll_id = excel_id[r])
        ~> \/ bg_failed[r] # "none"
           \/ /\ polled.status = "completed"
              /\ polled.processed = records[r]
              /\ polled.total = records[r]

\* the client has seen the completed snapshot of a job of two batches
C2_Witness ==
    \E r \in Reqs :
      /\ poll_id = excel_id[r]
      /\ response[r] = 200
      /\ records[r] > BATCH_SIZE
      /\ polled.status = "completed"
      /\ polled.processed = records[r]

\* C3: between two successive polls of one job that both answer
\* status = processing, the processed count does not decrease.
C3_PolledMonotone ==
    [][(polled.status = "processing" /\ polled'.status = "processing")
         => polled'.processed >= polled.processed]_vars

\* a poll that saw the snapshot of the second batch
C3_Witness ==
    /\ polled.status = "processing"
    /\ polled.processed > BATCH_SIZE

\* C4: a stored status changes only from processing to completed or to
\* error, and a completed or error snapshot is never replaced.
C4_TerminalAbsorbing ==
    [][\A id \in DOMAIN processing_progress :
         /\ id \in DOMAIN processing_progress'
         /\ processing_progress[id].status \in {"completed", "error"}
              => processing_progress'[id] = processing_progress[id]
         /\ processing_progress'[id].status # processing_progress[id].status
              => /\ processing_progress[id].status = "processing"
                 /\ processing_progress'[id].status \in {"completed", "error"}
      ]_vars

\* every call is over; one job ended completed, the other in error
C4_Witness ==
    /\ \A r \in Reqs : Finished(r)
    /\ \E id \in Ids : StatusOf(id) = "completed"
    /\ \E id \in Ids : StatusOf(id) = "error"

\* C5: a processing snapshot exists only for a committed metadata row; the
\* task takes no step before the 200 response and the handler takes none
\* after the task started; once the response is sent the id has a snapshot.
C5_StartOrder ==
    \A r \in Reqs :
      /\ StatusOf(excel_id[r]) = "processing" => excel_id[r] \in excel_metadata
      /\ h_pc[r] \in {"registered", "scheduled"}
           => processing_progress[excel_id[r]] = InitialSnapshot(records[r])
      /\ bg_pc[r] \notin {"none", "scheduled"} => response[r] = 200
      /\ h_pc[r] # "done" => bg_pending[r] = 0 /\ bg_conn[r] = "none"
      /\ response[r] = 200 =>
           /\ bg_pc[r] # "none"
           /\ excel_id[r] \in excel_metadata
           /\ get_progress(excel_id[r]) # NotFound

\* the response is out, the task has not started, the initial snapshot is
\* what a poll returns
C5_Witness ==
    \E r \in Reqs :
      /\ response[r] = 200
      /\ bg_pc[r] = "scheduled"
      /\ poll_id = excel_id[r]
      /\ polled = InitialSnapshot(records[r])

\* C6: once a call that staged the upload is over (handler returned, task
\* finished or never scheduled), the staged file has been deleted.
C6_TmpFileReleased ==
    \A r \in Reqs :
      (Finished(r) /\ tmp_file[r] # "none") => tmp_file[r] = "deleted"

\* C7: once every call is over, no connection is checked out of the pool.
C7_ConnectionsReturned ==
    (\A r \in Reqs : Finished(r)) => pool_out = 0

\* C8: once 5 minutes have passed without a write to a job's entry, the
\* entry is gone and GET /progress/{id} answers the not-found sentinel.
C8_Eviction ==
    elapsed => get_progress(poll_id) = NotFound

\* C9: a source with no surviving row is answered 400 at once: the handler
\* takes no further step, so it checks out no connection, inserts no
\* metadata row, registers no snapshot and schedules no task.
C9_EmptyRejected ==
    \A r \in Reqs :
      records[r] = 0 =>
        /\ h_pc[r] = "done"
        /\ response[r] = 400
        /\ excel_id[r] = 0
        /\ conn[r] = "none"
        /\ bg_pc[r] = "none"
        /\ bg_conn[r] = "none"

\* an empty source was rejected while the pool, the metadata table and the
\* progress dictionary are still untouched
C9_Witness ==
    \E r \in Reqs :
      /\ records[r] = 0
      /\ response[r] = 400
      /\ pool_out = 0
      /\ next_id = 1
      /\ DOMAIN processing_progress = {}

\* C10: a poll of an id without an entry answers the not-found sentinel and
\* leaves the progress dictionary as it was.
C10_NotFoundSentinel ==
    [][(poll_id \notin DOMAIN processing_progress /\ polled' # polled)
         => /\ polled' = NotFound
            /\ processing_progress' = processing_progress]_vars

\* not-found was answered for an id that has no entry while other jobs have
C10_Witness ==
    /\ polled = NotFound
    /\ poll_id \notin DOMAIN processing_progress
    /\ DOMAIN processing_progress # {}

\* the number of successful sends of a sequence of threads
RECURSIVE Deliveries(_)
Deliveries(ts) ==
    IF ts = <<>> THEN 0
    ELSE Head(ts).emit_ok + Head(ts).post_ok + Deliveries(Tail(ts))

\* C11: a thread emits on the channel exactly when the channel is
\* established at its check; after a successful emit it makes no HTTP call;
\* without an established channel it makes exactly one HTTP call when a token
\* was given and sends nothing otherwise; no thread delivers twice.
C11_PathSelection ==
    [][/\ \A k \in DOMAIN threads :
         LET t == threads[k]
             u == threads'[k]
         IN /\ (t.pc = "start" /\ u.pc # "start")
                 => /\ ChannelEstablished <=> u.emits = 1
                    /\ u.posts = 0
            /\ u.emit_ok = 1 => u.posts = 0 /\ u.pc = "done"
            /\ (u.pc = "done" /\ u.emits = 0)
                 => /\ u.posts = (IF HasToken(u.jwt_token) THEN 1 ELSE 0)
                    /\ HasToken(u.jwt_token) \/ u.post_ok = 0
            /\ u.emit_ok + u.post_ok <= 1
            /\ u.emits <= 1 /\ u.posts <= 1
       /\ Len(delivered') = Deliveries(threads')
      ]_vars

\* one event went out on the channel without an HTTP call, and a later one,
\* the channel being down, went out as one HTTP call
C11_Witness ==
    \E k1, k2 \in DOMAIN threads :
      /\ threads[k1].pc = "done" /\ threads[k1].emit_ok = 1
      /\ threads[k1].posts = 0
      /\ threads[k2].pc = "done" /\ threads[k2].emits = 0
      /\ threads[k2].post_ok = 1

TotalBatches(n) == (n + BATCH_SIZE - 1) \div BATCH_SIZE

\* C13: after the initial snapshot, the task of a job of N records stores
\* processing snapshots of which the k-th has processed = min(k * B, N),
\* processed <= total = N, at most ceil(N / B) of them; a run that does not
\* fail stores exactly ceil(N / B) of them and then one completed snapshot.
C13_BatchSequence ==
    \A r \in Reqs :
      LET w == written[r]
          n == records[r]
      IN bg_pc[r] # "none" =>
           /\ Len(w) >= 1 /\ w[1] = InitialSnapshot(n)
           /\ \A k \in 2..Len(w) :
                /\ w[k].status = "processing"
                     => /\ w[k].processed = Min((k - 1) * BATCH_SIZE, n)
                        /\ w[k].processed <= w[k].total
                        /\ w[k].total = n
                        /\ k - 1 <= TotalBatches(n)
                /\ w[k].status = "completed"
                     => /\ k = TotalBatches(n) + 2
                        /\ w[k].processed = n
                /\ w[k].status # "processing" => k = Len(w)
           /\ (bg_pc[r] \in {"completed", "done"} /\ bg_failed[r] = "none")
                => /\ Len(w) = TotalBatches(n) + 2
                   /\ w[Len(w)].status = "completed"

\* 12345 records: processed 5000, 10000, 12345, then completed
C13_Witness ==
    /\ records[1] = 12345
    /\ bg_pc[1] = "done"
    /\ Len(written[1]) = 5
    /\ [k \in 1..5 |-> written[1][k].processed]
         = <<0, 5000, 10000, 12345, 12345>>
    /\ [k \in 1..5 |-> written[1][k].status]
         = <<"processing", "processing", "processing", "processing",
             "completed">>

\* the source positions of the rows with at least one field that is neither
\* null nor blank
RowsWithData ==
    {i \in DOMAIN df_rows :
       \E c \in 1..RowWidth : df_rows[i][c] \notin {None, "  "}}

\* C14: the rowIndex values handed to the persister are 1..N in source
\* order, N being the number of rows with a non-null, non-blank field, and
\* N is also len(records), the recordsCount and the snapshot total.
C14_DenseRowIndex ==
    sheet_pc = "normalized" =>
      /\ Len(all_values) = Cardinality(RowsWithData)
      /\ \A k \in DOMAIN all_values : all_values[k].rowIndex = k
      /\ \A k \in DOMAIN all_values :
           \E i \in RowsWithData :
             /\ Cardinality({j \in RowsWithData : j <= i}) = k
             /\ all_values[k].rowData = cleaned_record(df_rows[i])
      /\ records_count = Cardinality(RowsWithData)
      /\ InitialSnapshot(records_count).total = Len(all_values)

\* an empty row first, a blank-only row in the middle: indices 1, 2
C14_Witness ==
    /\ sheet_pc = "normalized"
    /\ Len(df_rows) = 3
    /\ \A c \in 1..RowWidth : df_rows[1][c] = None
    /\ df_rows[2][1] = "x"
    /\ df_rows[2][2] = "  "
    /\ Len(all_values) = 2
    /\ all_values[2].rowIndex = 2

\* C15: the labels stored with the job are pairwise distinct, also when the
\* declared labels already hold a suffixed form ([A, A, A_1]).
C15_LabelsUnique ==
    sheet_pc = "headers" =>
      \A i, j \in DOMAIN headers : i # j => headers[i] # headers[j]

\* C16: over the whole life of an entry of the progress store, the terminal
\* snapshot included, the stored processed count never decreases.
C16_LifetimeMonotone ==
    [][\A id \in DOMAIN processing_progress :
         id \in DOMAIN processing_progress' =>
           processing_progress'[id].processed
             >= processing_progress[id].processed
      ]_vars

\* C17: only the background task stores a completed or error snapshot; a
\* step that stores one is not a step of the request handler.
C17_TaskOwnsTerminal ==
    [][\A id \in DOMAIN processing_progress' :
         /\ processing_progress'[id].status \in {"completed", "error"}
         /\ \/ id \notin DOMAIN processing_progress
            \/ processing_progress[id] # processing_progress'[id]
         => h_pc' = h_pc
      ]_vars

\* the INSERT or the commit of the metadata row of call r fails in this step
JobCreationFails(r) ==
    /\ h_pc[r] \in {"cursor", "inserted"}
    /\ h_pc'[r] = "done"

\* C18: a failed INSERT or commit of the metadata row is answered with 500,
\* leaves no metadata row, schedules no task then or later, writes no
\* record, and no id without a committed metadata row has a processing
\* snapshot.
C18_CreationFailureFinal ==
    /\ [][\A r \in Reqs :
            JobCreationFails(r) =>
              /\ response'[r] = 500
              /\ bg_pc'[r] = "none"
              /\ excel_metadata' = excel_metadata
              /\ excel_id'[r] \notin excel_metadata'
              /\ dynamic_records' = dynamic_records
              /\ conn'[r] = "none"
         ]_vars
    /\ [](\A r \in Reqs :
            (response[r] = 500 /\ excel_id[r] \notin excel_metadata) =>
              /\ bg_pc[r] = "none"
              /\ excel_id[r] # 0 => dynamic_records[excel_id[r]] = 0)
    /\ [](\A id \in DOMAIN processing_progress :
            processing_progress[id].status = "processing"
              => id \in excel_metadata)

\* the commit of the metadata row of some call failed: 500, an id that has
\* no metadata row and an error snapshot for it
C18_Witness ==
    \E r \in Reqs :
      /\ h_pc[r] = "done"
      /\ response[r] = 500
      /\ excel_id[r] # 0
      /\ excel_id[r] \notin excel_metadata
      /\ StatusOf(excel_id[r]) = "error"
      /\ bg_pc[r] = "none"

\* C19: the events of one job reach the subscriber in the order in which
\* their snapshots were stored: processed never decreases along the
\* deliveries and no processing event follows the completed one.
C19_DeliveryOrder ==
    \A i, j \in DOMAIN delivered :
      (i < j /\ delivered[i].excelId = delivered[j].excelId) =>
        /\ delivered[i].processed <= delivered[j].processed
        /\ ~(/\ delivered[i].status = "completed"
             /\ delivered[j].status = "processing")

\* C20: a completed snapshot implies that all records of the job are
\* committed, an error snapshot that none is.
C20_CompletedDurable ==
    \A r \in Reqs :
      excel_id[r] # 0 =>
        /\ StatusOf(excel_id[r]) = "completed"
             => dynamic_records[excel_id[r]] = records[r]
        /\ StatusOf(excel_id[r]) = "error"
             => dynamic_records[excel_id[r]] = 0

\* one job completed with three batches committed, the other failed after
\* its first batch was inserted
C20_Witness ==
    /\ \E r \in Reqs :
         /\ StatusOf(excel_id[r]) = "completed"
         /\ records[r] = 3 * BATCH_SIZE
         /\ dynamic_records[excel_id[r]] = 3 * BATCH_SIZE
    /\ \E r \in Reqs :
         /\ bg_failed[r] = "batch"
         /\ bg_i[r] >= BATCH_SIZE
         /\ StatusOf(excel_id[r]) = "error"

====
